---- MODULE Spec2Model ----
(***************************************************************************)
(* State-machine model of the debate/vote ledger contract in src/src/lib.rs *)
(* (struct Contract and its methods new, create_debate, vote_debate,        *)
(* get_debates, get_detail_debate, get_user_vote_in_debate).                *)
(*                                                                         *)
(* Every external call runs to completion as one atomic step.  A call that *)
(* panics (env::panic_str) is rolled back by the runtime, so it leaves the *)
(* contract state as it was.                                               *)
(***************************************************************************)
EXTENDS Integers, Sequences, FiniteSets, TLC

(* ----------------------------- bounds ---------------------------------- *)
\* The two u64 counters stay far below 2^64 under these caps, so `+= 1`
\* never overflows in the model.
\* largest debate id handed out (cap on next_debate_id)
MaxDebates == 2
\* largest vote id handed out (cap on next_vote_id)
MaxVotes == 2
\* largest block timestamp (ms) the environment reaches
MaxTime == 1

(* ------------------------- environment inputs -------------------------- *)
\* env::signer_account_id() ranges over these accounts
Accounts == {"alice", "bob"}
\* the owner_id argument of new: the account that deploys the contract
Owner == "alice"

\* the create_debate calls the environment makes, as <<signer, arguments>>;
\* the arguments are <<topic, figure_1_name, figure_1_image_url,
\* figure_2_name, figure_2_image_url, debate_dialogue>>.  The owner submits
\* a debate with an empty dialogue, the other account one with an empty topic.
CreateCalls ==
  { <<"alice", <<"X vs Y", "A", "a.png", "B", "b.png", << >> >> >>,
    <<"bob", <<"", "C", "c.png", "D", "d.png", << <<"C", "hello", "m1">> >> >> >> }

\* debate_id arguments: every id that can be created, and 0, which never is
DebateIdArgs == 0 .. MaxDebates

\* choice arguments (u8): the two accepted values and two rejected ones
Choices == 1 .. 3

(* ------------------------- panic messages ------------------------------ *)
NotFound == "Debate not found!"
InvalidChoice == "Invalid choice! Choose 1 or 2."
DuplicateVote == "You have already voted in this debate!"

(* ------------------------------ state ---------------------------------- *)
VARIABLES
  owner_id,        \* Contract.owner_id
  debates,         \* Contract.debates : UnorderedMap<u64, Debate>
  next_debate_id,  \* Contract.next_debate_id
  votes,           \* Contract.votes : UnorderedMap<u64, Vote>
  next_vote_id,    \* Contract.next_vote_id
  now,             \* the latest env::block_timestamp_ms() a call has read
  call,            \* the latest external call: method, signer, arguments
  ret,             \* what that call returned, or the panic it raised
  createdLog,      \* history: <<id returned, Debate stored>> per create_debate
  votedLog         \* history: <<id returned, Vote stored>> per successful vote_debate

ledger == <<owner_id, debates, next_debate_id, votes, next_vote_id>>
vars == <<owner_id, debates, next_debate_id, votes, next_vote_id,
          now, call, ret, createdLog, votedLog>>

\* the Contract value (self) in the current state
Self == [owner_id |-> owner_id, debates |-> debates,
         next_debate_id |-> next_debate_id,
         votes |-> votes, next_vote_id |-> next_vote_id]

(* ------------------------- Option<T> ----------------------------------- *)
None == [some |-> FALSE, value |-> << >>]
Some(v) == [some |-> TRUE, value |-> v]

(* ------------- UnorderedMap: entries kept in insertion order ----------- *)
MapKeys(m) == { m[i].key : i \in DOMAIN m }

MapGet(m, k) ==
  IF \E i \in DOMAIN m : m[i].key = k
  THEN Some(m[CHOOSE i \in DOMAIN m : m[i].key = k].value)
  ELSE None

\* insert: replaces the value of an existing key in place, else appends
MapInsert(m, k, v) ==
  IF \E i \in DOMAIN m : m[i].key = k
  THEN [i \in DOMAIN m |-> IF m[i].key = k THEN [key |-> k, value |-> v] ELSE m[i]]
  ELSE Append(m, [key |-> k, value |-> v])

(* ------------------------- call outcomes ------------------------------- *)
Ok(self, v) == [self |-> self, ret |-> [kind |-> "ok", value |-> v]]

\* a variant of Panic in which the aborted call has already taken a vote id
PanicAfterIdTaken(self, msg) ==
  [self |-> [self EXCEPT !.next_vote_id = @ + 1],
   ret |-> [kind |-> "panic", value |-> msg]]

\* env::panic_str: the call aborts and the contract state is as before it
Panic(self, msg) == [self |-> self, ret |-> [kind |-> "panic", value |-> msg]]

(* ------------------------- Contract::new ------------------------------- *)
\* variant: the counters are seeded at 0
new_ZeroSeed(owner) ==
  [owner_id |-> owner, debates |-> << >>, next_debate_id |-> 0,
   votes |-> << >>, next_vote_id |-> 0]

new(owner) ==
  [owner_id |-> owner, debates |-> << >>, next_debate_id |-> 1,
   votes |-> << >>, next_vote_id |-> 1]

(* ---------------------- Contract::create_debate ------------------------ *)
\* the Debate built from the arguments, the signer and the block time
NewDebate(signer, ts, in) ==
  [topic |-> in[1], creator |-> signer, created_at |-> ts,
   figure_1_name |-> in[2], figure_1_image_url |-> in[3],
   figure_2_name |-> in[4], figure_2_image_url |-> in[5],
   debate_dialogue |-> in[6]]

\* variant: the counter is read but not advanced
create_debate_NoIncrement(self, signer, ts, in) ==
  LET debate_id == self.next_debate_id
  IN Ok([self EXCEPT !.debates = MapInsert(@, debate_id, NewDebate(signer, ts, in))],
        debate_id)

\* variant: the id is derived from the size of the votes collection
create_debate_IdFromVotes(self, signer, ts, in) ==
  LET debate_id == Len(self.votes) + 1
  IN Ok([self EXCEPT !.next_debate_id = @ + 1,
                     !.debates = MapInsert(@, debate_id, NewDebate(signer, ts, in))],
        debate_id)

\* variant: only the owner may create a debate
create_debate_OwnerOnly(self, signer, ts, in) ==
  LET debate_id == self.next_debate_id
  IN IF signer # self.owner_id THEN Panic(self, "Only the owner can create debates!")
     ELSE Ok([self EXCEPT !.next_debate_id = @ + 1,
                          !.debates = MapInsert(@, debate_id, NewDebate(signer, ts, in))],
             debate_id)

create_debate(self, signer, ts, in) ==
  LET debate_id == self.next_debate_id
  IN Ok([self EXCEPT !.next_debate_id = @ + 1,
                     !.debates = MapInsert(@, debate_id, NewDebate(signer, ts, in))],
        debate_id)

(* ----------------------- Contract::vote_debate ------------------------- *)
\* variant: the choice has a lower limit only
valid_choice_NoUpperLimit(choice) == choice >= 1

\* negation of the guard `choice != 1 && choice != 2`
valid_choice(choice) == ~(choice # 1 /\ choice # 2)

\* variant: the map key (the vote id) is compared with debate_id
already_voted_KeyCompared(vs, debate_id, voter) ==
  \E i \in DOMAIN vs :
    vs[i].key = debate_id /\ vs[i].value.voter = voter

\* variant: any vote in the debate counts, whoever cast it
already_voted_AnyVoter(vs, debate_id, voter) ==
  \E i \in DOMAIN vs : vs[i].value.debate_id = debate_id

\* the scan over self.votes.iter(): some existing vote has this debate and voter
already_voted(vs, debate_id, voter) ==
  \E i \in DOMAIN vs :
    vs[i].value.debate_id = debate_id /\ vs[i].value.voter = voter

\* variant: the choice is checked before the debate is looked up
vote_checks_ChoiceFirst(self, voter, debate_id, choice) ==
  IF ~valid_choice(choice) THEN InvalidChoice
  ELSE IF MapGet(self.debates, debate_id) = None THEN NotFound
  ELSE IF already_voted(self.votes, debate_id, voter) THEN DuplicateVote
  ELSE ""

\* variant: the duplicate scan runs before the choice check
vote_checks_DuplicateFirst(self, voter, debate_id, choice) ==
  IF MapGet(self.debates, debate_id) = None THEN NotFound
  ELSE IF already_voted(self.votes, debate_id, voter) THEN DuplicateVote
  ELSE IF ~valid_choice(choice) THEN InvalidChoice
  ELSE ""

\* variant: a vote is a duplicate only if it repeats the stored choice
vote_checks_SameChoiceOnly(self, voter, debate_id, choice) ==
  IF MapGet(self.debates, debate_id) = None THEN NotFound
  ELSE IF ~valid_choice(choice) THEN InvalidChoice
  ELSE IF \E i \in DOMAIN self.votes :
            /\ self.votes[i].value.debate_id = debate_id
            /\ self.votes[i].value.voter = voter
            /\ self.votes[i].value.choice = choice
       THEN DuplicateVote
  ELSE ""

\* variant: the debate lookup is missing
vote_checks_NoLookup(self, voter, debate_id, choice) ==
  IF ~valid_choice(choice) THEN InvalidChoice
  ELSE IF already_voted(self.votes, debate_id, voter) THEN DuplicateVote
  ELSE ""

\* the three guards in source order: the message of the first one that
\* panics, or "" when none does
vote_checks(self, voter, debate_id, choice) ==
  IF MapGet(self.debates, debate_id) = None THEN NotFound
  ELSE IF ~valid_choice(choice) THEN InvalidChoice
  ELSE IF already_voted(self.votes, debate_id, voter) THEN DuplicateVote
  ELSE ""

NewVote(voter, ts, debate_id, choice) ==
  [debate_id |-> debate_id, voter |-> voter, voted_at |-> ts, choice |-> choice]

\* variant: the debate counter is advanced instead of the vote counter
cast_vote_WrongCounter(self, voter, ts, debate_id, choice) ==
  LET vote_id == self.next_vote_id
  IN Ok([self EXCEPT !.next_debate_id = @ + 1,
                     !.votes = MapInsert(@, vote_id, NewVote(voter, ts, debate_id, choice))],
        vote_id)

\* variant: the vote counter is read but not advanced
cast_vote_NoIncrement(self, voter, ts, debate_id, choice) ==
  LET vote_id == self.next_vote_id
  IN Ok([self EXCEPT !.votes = MapInsert(@, vote_id, NewVote(voter, ts, debate_id, choice))],
        vote_id)

\* the part of vote_debate after the guards: take the id, insert the vote
cast_vote(self, voter, ts, debate_id, choice) ==
  LET vote_id == self.next_vote_id
  IN Ok([self EXCEPT !.next_vote_id = @ + 1,
                     !.votes = MapInsert(@, vote_id, NewVote(voter, ts, debate_id, choice))],
        vote_id)

vote_debate(self, voter, ts, debate_id, choice) ==
  LET err == vote_checks(self, voter, debate_id, choice)
  IN IF err # "" THEN Panic(self, err)
     ELSE cast_vote(self, voter, ts, debate_id, choice)

(* --------------------------- tallies ----------------------------------- *)
RECURSIVE count_votes_AnyDebate(_, _, _)
\* variant: the debate_id comparison is missing from the loop
count_votes_AnyDebate(vs, debate_id, acc) ==
  IF vs = << >> THEN acc
  ELSE LET vote == Head(vs).value
           acc1 == IF vote.choice = 1 THEN <<acc[1] + 1, acc[2]>>
                   ELSE IF vote.choice = 2 THEN <<acc[1], acc[2] + 1>>
                   ELSE acc
       IN count_votes_AnyDebate(Tail(vs), debate_id, acc1)

RECURSIVE count_votes_Swapped(_, _, _)
\* variant: choice 1 is counted for figure 2 and choice 2 for figure 1
count_votes_Swapped(vs, debate_id, acc) ==
  IF vs = << >> THEN acc
  ELSE LET vote == Head(vs).value
           acc1 == IF vote.debate_id = debate_id
                   THEN IF vote.choice = 1 THEN <<acc[1], acc[2] + 1>>
                        ELSE IF vote.choice = 2 THEN <<acc[1] + 1, acc[2]>>
                        ELSE acc
                   ELSE acc
       IN count_votes_Swapped(Tail(vs), debate_id, acc1)

RECURSIVE count_votes(_, _, _)
\* the inner loop of get_debates / get_detail_debate; acc is
\* <<figure_1_votes, figure_2_votes>>, started at <<0, 0>>
count_votes(vs, debate_id, acc) ==
  IF vs = << >> THEN acc
  ELSE LET vote == Head(vs).value
           acc1 == IF vote.debate_id = debate_id
                   THEN IF vote.choice = 1 THEN <<acc[1] + 1, acc[2]>>
                        ELSE IF vote.choice = 2 THEN <<acc[1], acc[2] + 1>>
                        ELSE acc
                   ELSE acc
       IN count_votes(Tail(vs), debate_id, acc1)

(* ----------------------- Contract::get_debates ------------------------- *)
\* variant: the two tallies are pushed in the opposite order
get_debates_TalliesSwapped(self) ==
  [i \in DOMAIN self.debates |->
     LET debate_id == self.debates[i].key
         debate == self.debates[i].value
         t == count_votes(self.votes, debate_id, <<0, 0>>)
     IN <<debate_id, debate.topic, debate.creator, debate.created_at,
          debate.figure_1_name, debate.figure_1_image_url,
          debate.figure_2_name, debate.figure_2_image_url, t[2], t[1]>>]

get_debates(self) ==
  [i \in DOMAIN self.debates |->
     LET debate_id == self.debates[i].key
         debate == self.debates[i].value
         t == count_votes(self.votes, debate_id, <<0, 0>>)
     IN <<debate_id, debate.topic, debate.creator, debate.created_at,
          debate.figure_1_name, debate.figure_1_image_url,
          debate.figure_2_name, debate.figure_2_image_url, t[1], t[2]>>]

(* -------------------- Contract::get_detail_debate ---------------------- *)
get_detail_debate(self, debate_id) ==
  LET found == MapGet(self.debates, debate_id)
  IN IF ~found.some THEN None
     ELSE LET debate == found.value
              t == count_votes(self.votes, debate_id, <<0, 0>>)
          IN Some(<<debate_id, debate.topic, debate.creator, debate.created_at,
                    debate.figure_1_name, debate.figure_1_image_url,
                    debate.figure_2_name, debate.figure_2_image_url,
                    debate.debate_dialogue, t[1], t[2]>>)

(* ----------------- Contract::get_user_vote_in_debate ------------------- *)
\* variant: the voter comparison is missing from the scan
get_user_vote_in_debate_AnyVoter(self, voter, debate_id) ==
  LET hits == { i \in DOMAIN self.votes :
                  self.votes[i].value.debate_id = debate_id }
  IN IF hits = {} THEN None
     ELSE LET first == CHOOSE i \in hits : \A j \in hits : i <= j
              vote == self.votes[first].value
          IN Some(<<vote.choice, vote.voted_at>>)

\* variant: the timestamp returned is the one of the call, not of the vote
get_user_vote_in_debate_LastVoteTime(self, voter, debate_id) ==
  LET hits == { i \in DOMAIN self.votes :
                  /\ self.votes[i].value.debate_id = debate_id
                  /\ self.votes[i].value.voter = voter }
  IN IF hits = {} THEN None
     ELSE LET first == CHOOSE i \in hits : \A j \in hits : i <= j
              vote == self.votes[first].value
          IN Some(<<vote.choice, self.votes[Len(self.votes)].value.voted_at>>)

\* the first vote in iteration order with this debate and voter
get_user_vote_in_debate(self, voter, debate_id) ==
  LET hits == { i \in DOMAIN self.votes :
                  /\ self.votes[i].value.debate_id = debate_id
                  /\ self.votes[i].value.voter = voter }
  IN IF hits = {} THEN None
     ELSE LET first == CHOOSE i \in hits : \A j \in hits : i <= j
              vote == self.votes[first].value
          IN Some(<<vote.choice, vote.voted_at>>)

(* ---------------- outcomes of the three &self methods ------------------ *)
\* none of them has a panic path or writes to self
get_debates_outcome(self) == Ok(self, get_debates(self))

\* variant: an unknown id is answered with a panic, as vote_debate does
get_detail_debate_outcome_PanicsOnMissing(self, debate_id) ==
  IF MapGet(self.debates, debate_id) = None THEN Panic(self, NotFound)
  ELSE Ok(self, get_detail_debate(self, debate_id))

get_detail_debate_outcome(self, debate_id) ==
  Ok(self, get_detail_debate(self, debate_id))

get_user_vote_in_debate_outcome(self, voter, debate_id) ==
  Ok(self, get_user_vote_in_debate(self, voter, debate_id))

(* ------------------------------ actions -------------------------------- *)
\* block timestamps a call made now can observe
BlockTimes == now .. MaxTime

Init ==
  \E owner \in {Owner} :
    /\ owner_id = new(owner).owner_id
    /\ debates = new(owner).debates
    /\ next_debate_id = new(owner).next_debate_id
    /\ votes = new(owner).votes
    /\ next_vote_id = new(owner).next_vote_id
    /\ now = 0
    /\ call = [op |-> "new", signer |-> owner]
    /\ ret = [kind |-> "ok", value |-> << >>]
    /\ createdLog = << >>
    /\ votedLog = << >>

\* install the contract state an outcome carries
Commit(out) ==
  /\ owner_id' = out.self.owner_id
  /\ debates' = out.self.debates
  /\ next_debate_id' = out.self.next_debate_id
  /\ votes' = out.self.votes
  /\ next_vote_id' = out.self.next_vote_id
  /\ ret' = out.ret

CreateDebate ==
  \E c \in CreateCalls, ts \in BlockTimes :
    LET signer == c[1]
        in == c[2]
        out == create_debate(Self, signer, ts, in)
    IN /\ next_debate_id <= MaxDebates
       /\ Commit(out)
       /\ now' = ts
       /\ call' = [op |-> "create_debate", signer |-> signer, input |-> in]
       /\ createdLog' = Append(createdLog,
                               <<out.ret.value, NewDebate(signer, ts, in)>>)
       /\ UNCHANGED votedLog

VoteDebate ==
  \E signer \in Accounts, ts \in BlockTimes,
     debate_id \in DebateIdArgs, choice \in Choices :
    LET out == vote_debate(Self, signer, ts, debate_id, choice)
    IN /\ out.ret.kind = "ok" => next_vote_id <= MaxVotes
       /\ Commit(out)
       /\ now' = IF out.ret.kind = "ok" THEN ts ELSE now
       /\ call' = [op |-> "vote_debate", signer |-> signer,
                   debate_id |-> debate_id, choice |-> choice]
       /\ votedLog' = IF out.ret.kind = "ok"
                      THEN Append(votedLog,
                                  <<out.ret.value,
                                    NewVote(signer, ts, debate_id, choice)>>)
                      ELSE votedLog
       /\ UNCHANGED createdLog

GetDebates ==
    /\ Commit(get_debates_outcome(Self))
    /\ call' = [op |-> "get_debates"]
    /\ UNCHANGED <<now, createdLog, votedLog>>

GetDetailDebate ==
  \E debate_id \in DebateIdArgs :
    /\ Commit(get_detail_debate_outcome(Self, debate_id))
    /\ call' = [op |-> "get_detail_debate", debate_id |-> debate_id]
    /\ UNCHANGED <<now, createdLog, votedLog>>

GetUserVoteInDebate ==
  \E signer \in Accounts, debate_id \in DebateIdArgs :
    /\ Commit(get_user_vote_in_debate_outcome(Self, signer, debate_id))
    /\ call' = [op |-> "get_user_vote_in_debate", signer |-> signer,
                debate_id |-> debate_id]
    /\ UNCHANGED <<now, createdLog, votedLog>>

Next ==
  \/ CreateDebate
  \/ VoteDebate
  \/ GetDebates
  \/ GetDetailDebate
  \/ GetUserVoteInDebate

Spec == Init /\ [][Next]_vars

(* ======================= properties of the ledger ====================== *)
\* r is the outcome of a call that panicked with msg
PanickedWith(r, msg) == r.kind = "panic" /\ r.value = msg

\* ids returned by create_debate so far
CreatedIds == { createdLog[i][1] : i \in DOMAIN createdLog }

\* signer has a successful vote_debate call on debate_id behind them
HasVotedIn(signer, debate_id) ==
  \E i \in DOMAIN votedLog :
    votedLog[i][2].voter = signer /\ votedLog[i][2].debate_id = debate_id

\* number of stored votes that carry this debate id
StoredVotesOf(debate_id) ==
  Cardinality({ j \in DOMAIN votes : votes[j].value.debate_id = debate_id })

\* number of successful vote_debate calls for this debate and choice
VotesCast(debate_id, choice) ==
  Cardinality({ i \in DOMAIN votedLog :
                  /\ votedLog[i][2].debate_id = debate_id
                  /\ votedLog[i][2].choice = choice })

\* C1: in every reachable state the votes collection holds at most one Vote
\* for each (debate_id, voter) pair.
C1_OneVotePerDebateAndVoter ==
  \A i, j \in DOMAIN votes :
    (/\ votes[i].value.debate_id = votes[j].value.debate_id
     /\ votes[i].value.voter = votes[j].value.voter) => i = j

\* two voters have voted in the same debate and a repeated vote was refused
C1_Witness ==
  /\ Len(votes) = 2
  /\ votes[1].value.debate_id = votes[2].value.debate_id
  /\ call.op = "vote_debate"
  /\ PanickedWith(ret, DuplicateVote)

\* C2: once a signer has voted successfully in a debate, every later
\* vote_debate call by that signer on that debate with choice 1 or 2 panics
\* with the duplicate-vote message, whatever the choice and whatever
\* happened in between.
C2_SecondVoteIsDuplicate ==
  [][ (/\ call'.op = "vote_debate"
       /\ call'.choice \in {1, 2}
       /\ HasVotedIn(call'.signer, call'.debate_id))
      => PanickedWith(ret', DuplicateVote) ]_vars

\* a repeated vote with the other choice was refused as a duplicate, after
\* another signer had voted in between
C2_Witness ==
  /\ call.op = "vote_debate"
  /\ PanickedWith(ret, DuplicateVote)
  /\ Len(votes) = 2
  /\ votes[1].value.voter = call.signer
  /\ votes[1].value.debate_id = call.debate_id
  /\ votes[1].value.choice # call.choice
  /\ votes[2].value.voter # call.signer

\* C3: a vote_debate call that panics does so with one of the three
\* messages and leaves owner_id, debates, next_debate_id, votes and
\* next_vote_id as they were; it takes no vote id.
C3_FailedVoteChangesNothing ==
  [][ (call'.op = "vote_debate" /\ ret'.kind = "panic")
      => /\ ret'.value \in {NotFound, InvalidChoice, DuplicateVote}
         /\ UNCHANGED ledger ]_vars

\* a vote was refused for its choice on a ledger that already holds a vote
C3_Witness ==
  /\ call.op = "vote_debate"
  /\ PanickedWith(ret, InvalidChoice)
  /\ Len(votes) = 1
  /\ next_vote_id = 2

\* C4: for every debate the two tallies reported by get_debates and by
\* get_detail_debate sum to the number of stored votes with that debate id,
\* and every stored vote has choice 1 or 2 and the id of exactly one debate.
C4_TalliesAccountForEveryVote ==
  /\ \A i \in DOMAIN debates :
       LET id == debates[i].key
           row == get_debates(Self)[i]
           det == get_detail_debate(Self, id)
       IN /\ row[1] = id
          /\ row[9] + row[10] = StoredVotesOf(id)
          /\ det.some
          /\ det.value[10] + det.value[11] = StoredVotesOf(id)
  /\ \A j \in DOMAIN votes :
       /\ votes[j].value.choice \in {1, 2}
       /\ Cardinality({ i \in DOMAIN debates :
                          debates[i].key = votes[j].value.debate_id }) = 1

\* get_debates has reported one debate with a vote for each figure and
\* another debate with no votes
C4_Witness ==
  /\ call.op = "get_debates"
  /\ Len(ret.value) = 2
  /\ \E i, k \in DOMAIN ret.value :
       /\ ret.value[i][9] = 1 /\ ret.value[i][10] = 1
       /\ ret.value[k][9] = 0 /\ ret.value[k][10] = 0

\* C5: the ids returned by create_debate are strictly increasing in call
\* order (hence never repeat), whatever calls come in between.
C5_DebateIdsIncrease ==
  \A i, j \in DOMAIN createdLog :
    i < j => createdLog[i][1] < createdLog[j][1]

\* a second debate was created after a vote on the first one
C5_Witness ==
  /\ call.op = "create_debate"
  /\ Len(createdLog) = 2
  /\ Len(votedLog) = 1
  /\ ret.value = 2

\* C6: the ids returned by successful vote_debate calls are strictly
\* increasing in call order; create_debate leaves next_vote_id alone and
\* vote_debate leaves next_debate_id alone.
C6_VoteIdsIncreaseIndependently ==
  [][ /\ call'.op = "create_debate" => next_vote_id' = next_vote_id
      /\ call'.op = "vote_debate" => next_debate_id' = next_debate_id
      /\ (call'.op = "vote_debate" /\ ret'.kind = "ok")
           => \A i \in DOMAIN votedLog : votedLog[i][1] < ret'.value ]_vars

\* the second vote got id 2 although two debates had been created
C6_Witness ==
  /\ call.op = "vote_debate"
  /\ ret.kind = "ok"
  /\ ret.value = 2
  /\ Len(votedLog) = 2
  /\ next_debate_id = 3

\* C7: vote_debate on a debate_id with no stored Debate panics with the
\* not-found message for every choice and every signer.
C7_MissingDebateIsNotFound ==
  [][ (call'.op = "vote_debate" /\ call'.debate_id \notin MapKeys(debates))
      => PanickedWith(ret', NotFound) ]_vars

\* a vote with a rejected choice on a missing debate was answered not-found
\* while another debate exists
C7_Witness ==
  /\ call.op = "vote_debate"
  /\ call.choice \notin {1, 2}
  /\ call.debate_id \notin MapKeys(debates)
  /\ Len(debates) >= 1
  /\ PanickedWith(ret, NotFound)

\* C8: vote_debate on an existing debate with a choice other than 1 or 2
\* panics with the invalid-choice message, also when the signer has already
\* voted in that debate.
C8_BadChoiceIsInvalidChoice ==
  [][ (/\ call'.op = "vote_debate"
       /\ call'.debate_id \in MapKeys(debates)
       /\ call'.choice \notin {1, 2})
      => PanickedWith(ret', InvalidChoice) ]_vars

\* a signer who had already voted in the debate sent a rejected choice
C8_Witness ==
  /\ call.op = "vote_debate"
  /\ call.choice \notin {1, 2}
  /\ HasVotedIn(call.signer, call.debate_id)
  /\ PanickedWith(ret, InvalidChoice)

\* C9: every debate create_debate has returned an id for is still stored
\* under that id, with all fields as they were stored at creation.
C9_DebatesAreImmutable ==
  \A i \in DOMAIN createdLog :
    MapGet(debates, createdLog[i][1]) = Some(createdLog[i][2])

\* the first debate was read back after a second debate and two votes
C9_Witness ==
  /\ call.op = "get_detail_debate"
  /\ call.debate_id = 1
  /\ Len(createdLog) = 2
  /\ Len(votedLog) = 2
  /\ ret.value.some

\* what get_detail_debate has to return for an id, from the call history
ExpectedDetail(id) ==
  IF id \notin CreatedIds THEN None
  ELSE LET d == createdLog[CHOOSE i \in DOMAIN createdLog :
                             createdLog[i][1] = id][2]
       IN Some(<<id, d.topic, d.creator, d.created_at,
                 d.figure_1_name, d.figure_1_image_url,
                 d.figure_2_name, d.figure_2_image_url,
                 d.debate_dialogue, VotesCast(id, 1), VotesCast(id, 2)>>)

\* C10: get_detail_debate returns None for an id create_debate never
\* returned; for a created id it returns the id, the fields stored at
\* creation and the counts of all votes cast so far for that id.
C10_DetailMatchesHistory ==
  /\ \A id \in DebateIdArgs : get_detail_debate(Self, id) = ExpectedDetail(id)
  /\ call.op = "get_detail_debate" => ret.value = ExpectedDetail(call.debate_id)

\* the detail of a debate with one vote per figure was returned while the
\* other debate has none
C10_Witness ==
  /\ call.op = "get_detail_debate"
  /\ ret.value.some
  /\ ret.value.value[10] = 1
  /\ ret.value.value[11] = 1
  /\ Len(debates) = 2

\* what get_user_vote_in_debate has to return to signer for an id, from the
\* call history: the choice and time of the signer's successful vote on it
ExpectedUserVote(signer, id) ==
  IF ~HasVotedIn(signer, id) THEN None
  ELSE LET v == votedLog[CHOOSE i \in DOMAIN votedLog :
                           /\ votedLog[i][2].voter = signer
                           /\ votedLog[i][2].debate_id = id][2]
       IN Some(<<v.choice, v.voted_at>>)

\* C11: get_user_vote_in_debate returns None to a signer with no successful
\* vote on the id (existing or not), and otherwise exactly the choice and
\* timestamp recorded by that signer's successful vote_debate call on it.
C11_UserVoteMatchesHistory ==
  /\ \A signer \in Accounts, id \in DebateIdArgs :
       get_user_vote_in_debate(Self, signer, id) = ExpectedUserVote(signer, id)
  /\ call.op = "get_user_vote_in_debate"
       => ret.value = ExpectedUserVote(call.signer, call.debate_id)

\* a signer read back their own vote, cast earlier than and with another
\* choice than the other account's vote in the same debate
C11_Witness ==
  /\ call.op = "get_user_vote_in_debate"
  /\ Len(votes) = 2
  /\ votes[1].value.voter = call.signer
  /\ votes[1].value.debate_id = call.debate_id
  /\ votes[2].value.debate_id = call.debate_id
  /\ votes[2].value.choice # votes[1].value.choice
  /\ votes[2].value.voted_at # votes[1].value.voted_at
  /\ ret.value = Some(<<votes[1].value.choice, votes[1].value.voted_at>>)

\* C12: every stored vote carries the id of a stored debate.
C12_NoDanglingVote ==
  \A j \in DOMAIN votes : votes[j].value.debate_id \in MapKeys(debates)

\* votes are stored for two debates and a vote on a missing debate was refused
C12_Witness ==
  /\ call.op = "vote_debate"
  /\ PanickedWith(ret, NotFound)
  /\ Len(votes) = 2
  /\ votes[1].value.debate_id # votes[2].value.debate_id

\* C13: both counters start at 1 and advance by one per successful creation
\* and never otherwise: the debate ids in use are exactly
\* 1..next_debate_id-1 and the vote ids in use exactly 1..next_vote_id-1,
\* each used once, and the first id of either kind returned is 1.
C13_CountersMatchIdsInUse ==
  /\ next_debate_id = Len(createdLog) + 1
  /\ next_vote_id = Len(votedLog) + 1
  /\ MapKeys(debates) = 1 .. (next_debate_id - 1)
  /\ MapKeys(votes) = 1 .. (next_vote_id - 1)
  /\ Len(debates) = next_debate_id - 1
  /\ Len(votes) = next_vote_id - 1
  /\ createdLog # << >> => createdLog[1][1] = 1
  /\ votedLog # << >> => votedLog[1][1] = 1

\* two debates and two votes exist and a refused vote has just left the
\* counters alone
C13_Witness ==
  /\ call.op = "vote_debate"
  /\ ret.kind = "panic"
  /\ next_debate_id = 3
  /\ next_vote_id = 3

\* the Contract value with another account as owner_id
SelfOwnedBy(o) == [Self EXCEPT !.owner_id = o]

\* two calls ended the same way: both returned the same value or both
\* panicked with the same message
SameOutcome(a, b) == a.kind = b.kind /\ a.value = b.value

\* C14: in every reachable state create_debate succeeds for every signer,
\* owner or not, and every argument tuple, and stores the signer as creator;
\* the outcome of create_debate and of vote_debate does not depend on
\* owner_id, and owner_id keeps the value new gave it.
C14_CreateNeverFails ==
  /\ owner_id = Owner
  /\ \A signer \in Accounts, c \in CreateCalls, ts \in 0 .. MaxTime :
       LET out == create_debate(Self, signer, ts, c[2])
           stored == MapGet(out.self.debates, out.ret.value)
       IN /\ out.ret.kind = "ok"
          /\ stored.some
          /\ stored.value.creator = signer
          /\ stored.value.topic = c[2][1]
          /\ stored.value.debate_dialogue = c[2][6]
          /\ out.self.owner_id = owner_id
          /\ \A o \in Accounts :
               SameOutcome(create_debate(SelfOwnedBy(o), signer, ts, c[2]).ret,
                           out.ret)
  /\ \A signer \in Accounts, id \in DebateIdArgs, ch \in Choices, o \in Accounts :
       /\ SameOutcome(vote_debate(SelfOwnedBy(o), signer, now, id, ch).ret,
                      vote_debate(Self, signer, now, id, ch).ret)
       /\ vote_debate(Self, signer, now, id, ch).self.owner_id = owner_id
  /\ call.op = "create_debate"
       => /\ ret.kind = "ok"
          /\ MapGet(debates, ret.value).some
          /\ MapGet(debates, ret.value).value.creator = call.signer

\* an account other than the owner has created a debate with an empty
\* topic, after the owner created one with an empty dialogue
C14_Witness ==
  /\ call.op = "create_debate"
  /\ call.signer # owner_id
  /\ call.input[1] = ""
  /\ ret.kind = "ok"
  /\ ret.value = 2
  /\ debates[1].value.debate_dialogue = << >>
  /\ debates[2].value.creator = call.signer

\* C15: in every reachable state get_debates, get_detail_debate and
\* get_user_vote_in_debate return normally for every argument and signer
\* and leave owner_id, debates, next_debate_id, votes and next_vote_id as
\* they are.
C15_ReadsNeverFailNorWrite ==
  /\ get_debates_outcome(Self).ret.kind = "ok"
  /\ get_debates_outcome(Self).self = Self
  /\ \A id \in DebateIdArgs :
       /\ get_detail_debate_outcome(Self, id).ret.kind = "ok"
       /\ get_detail_debate_outcome(Self, id).self = Self
       /\ \A signer \in Accounts :
            /\ get_user_vote_in_debate_outcome(Self, signer, id).ret.kind = "ok"
            /\ get_user_vote_in_debate_outcome(Self, signer, id).self = Self
  /\ call.op \in {"get_debates", "get_detail_debate", "get_user_vote_in_debate"}
       => ret.kind = "ok"

\* the detail of an id that was never created was asked for on a ledger
\* that holds debates and votes, and the answer was None
C15_Witness ==
  /\ call.op = "get_detail_debate"
  /\ call.debate_id \notin MapKeys(debates)
  /\ ret.kind = "ok"
  /\ ~ret.value.some
  /\ Len(debates) = 2
  /\ Len(votes) = 2

\* the votes of one signer in one debate, in iteration order
OwnVotes(vs, signer, id) ==
  LET Mine(e) == e.value.voter = signer /\ e.value.debate_id = id
  IN SelectSeq(vs, Mine)

\* C16: what get_user_vote_in_debate returns to a signer for an id is
\* determined by that signer's own votes on that id alone (so two ledgers
\* that agree on them give the same answer, whatever others voted), and a
\* returned pair is the choice and timestamp of a vote of that signer.
C16_UserVoteIsCallerScoped ==
  \A signer \in Accounts, id \in DebateIdArgs :
    LET r == get_user_vote_in_debate(Self, signer, id)
        own == [Self EXCEPT !.votes = OwnVotes(votes, signer, id)]
    IN /\ r = get_user_vote_in_debate(own, signer, id)
       /\ r.some => \E j \in DOMAIN votes :
                      /\ votes[j].value.voter = signer
                      /\ votes[j].value.debate_id = id
                      /\ r.value = <<votes[j].value.choice, votes[j].value.voted_at>>

\* a signer asked for their vote in a debate in which only the other
\* account has voted, and got None
C16_Witness ==
  /\ call.op = "get_user_vote_in_debate"
  /\ ret.value = None
  /\ \E j \in DOMAIN votes :
       /\ votes[j].value.debate_id = call.debate_id
       /\ votes[j].value.voter # call.signer

\* C17: vote_debate by a signer succeeds exactly when the debate is stored,
\* the choice is 1 or 2 and no stored vote has that debate id and that
\* signer (votes of others in the debate and of the signer elsewhere do not
\* matter); on success exactly one vote, with the debate id, the signer, the
\* choice and the block timestamp, is added under the returned, fresh id.
C17_VoteSucceedsExactlyWhenAllowed ==
  /\ \A signer \in Accounts, id \in DebateIdArgs, ch \in Choices, ts \in BlockTimes :
       LET out == vote_debate(Self, signer, ts, id, ch)
           allowed == /\ id \in MapKeys(debates)
                      /\ ch \in {1, 2}
                      /\ ~ \E j \in DOMAIN votes :
                             /\ votes[j].value.debate_id = id
                             /\ votes[j].value.voter = signer
       IN /\ (out.ret.kind = "ok") <=> allowed
          /\ allowed =>
               /\ out.ret.value \notin MapKeys(votes)
               /\ out.self.votes =
                    Append(votes,
                           [key |-> out.ret.value,
                            value |-> [debate_id |-> id, voter |-> signer,
                                       voted_at |-> ts, choice |-> ch]])
  /\ (call.op = "vote_debate" /\ ret.kind = "ok")
       => /\ Len(votes) = Len(votedLog)
          /\ MapGet(votes, ret.value) =
               Some([debate_id |-> call.debate_id, voter |-> call.signer,
                     voted_at |-> now, choice |-> call.choice])

\* a signer's vote was accepted in a debate in which the other account had
\* already voted
C17_Witness ==
  /\ call.op = "vote_debate"
  /\ ret.kind = "ok"
  /\ Len(votes) = 2
  /\ votes[1].value.debate_id = call.debate_id
  /\ votes[1].value.voter # call.signer
  /\ votes[2].key = ret.value
  /\ votes[2].value.voter = call.signer

\* the two tallies get_detail_debate reports for a stored debate
DetailTally(self, id) ==
  LET d == get_detail_debate(self, id).value IN <<d[10], d[11]>>

\* C18: once get_user_vote_in_debate returns a (choice, voted_at) pair to a
\* signer for an id, every later call by that signer for that id returns the
\* same pair, and no tally of a stored debate ever decreases.
C18_VotesAreImmutable ==
  [][ /\ \A signer \in Accounts, id \in DebateIdArgs :
           LET r == get_user_vote_in_debate(Self, signer, id)
           IN r.some => get_user_vote_in_debate(Self', signer, id) = r
      /\ \A id \in MapKeys(debates) :
           /\ id \in MapKeys(debates')
           /\ DetailTally(Self', id)[1] >= DetailTally(Self, id)[1]
           /\ DetailTally(Self', id)[2] >= DetailTally(Self, id)[2] ]_vars

\* a signer read back their vote after a later debate and a later vote of
\* the other account
C18_Witness ==
  /\ call.op = "get_user_vote_in_debate"
  /\ ret.value.some
  /\ Len(votes) = 2
  /\ Len(debates) = 2
  /\ votes[1].value.voter = call.signer
  /\ votes[1].value.debate_id = call.debate_id
  /\ votes[2].value.voter # call.signer
  /\ debates[2].value.created_at > votes[1].value.voted_at

\* the two tallies get_debates reports in its row for a stored debate
ListTally(self, id) ==
  LET rows == get_debates(self)
      row == rows[CHOOSE i \in DOMAIN rows : rows[i][1] = id]
  IN <<row[9], row[10]>>

\* C19: a successful vote_debate(d, c) raises the tally of figure c of
\* debate d by one and leaves the other tally of d and the tallies of every
\* other debate as they were; create_debate adds a debate with tallies
\* (0, 0) and leaves the tallies of the existing debates as they were.
C19_VoteMovesOneTally ==
  /\ \A signer \in Accounts, id \in DebateIdArgs, ch \in Choices, ts \in BlockTimes :
       LET out == vote_debate(Self, signer, ts, id, ch)
       IN out.ret.kind = "ok" =>
            \A d \in MapKeys(debates) :
              /\ ListTally(out.self, d)[1] =
                   ListTally(Self, d)[1] + (IF d = id /\ ch = 1 THEN 1 ELSE 0)
              /\ ListTally(out.self, d)[2] =
                   ListTally(Self, d)[2] + (IF d = id /\ ch = 2 THEN 1 ELSE 0)
  /\ \A signer \in Accounts, c \in CreateCalls, ts \in BlockTimes :
       LET out == create_debate(Self, signer, ts, c[2])
       IN /\ out.ret.value \notin MapKeys(debates)
          /\ ListTally(out.self, out.ret.value) = <<0, 0>>
          /\ \A d \in MapKeys(debates) : ListTally(out.self, d) = ListTally(Self, d)
  /\ (call.op = "create_debate" /\ ret.kind = "ok")
       => ListTally(Self, ret.value) = <<0, 0>>

\* a vote for figure 2 of the second debate was accepted while the first
\* debate holds a vote for figure 1
C19_Witness ==
  /\ call.op = "vote_debate"
  /\ ret.kind = "ok"
  /\ call.debate_id = 2
  /\ call.choice = 2
  /\ Len(debates) = 2
  /\ ListTally(Self, 1) = <<1, 0>>
  /\ ListTally(Self, 2) = <<0, 1>>

\* rows is a list with one row per created debate, and each row carries the
\* id, the fields and the two tallies get_detail_debate returns for its id
ListMatchesDetail(rows) ==
  /\ Len(rows) = Cardinality(CreatedIds)
  /\ { rows[i][1] : i \in DOMAIN rows } = CreatedIds
  /\ \A i \in DOMAIN rows :
       LET det == get_detail_debate(Self, rows[i][1])
       IN /\ det.some
          /\ rows[i] = <<det.value[1], det.value[2], det.value[3], det.value[4],
                         det.value[5], det.value[6], det.value[7], det.value[8],
                         det.value[10], det.value[11]>>

\* C20: get_debates returns exactly one row per created debate, none for an
\* id never created, and each row agrees with get_detail_debate for the same
\* id on the id, topic, creator, created_at, figure fields and both tallies.
C20_ListAgreesWithDetail ==
  /\ ListMatchesDetail(get_debates(Self))
  /\ call.op = "get_debates" => ListMatchesDetail(ret.value)

\* get_debates has listed two debates, one of them with two votes for
\* figure 2
C20_Witness ==
  /\ call.op = "get_debates"
  /\ Len(ret.value) = 2
  /\ \E i \in DOMAIN ret.value : ret.value[i][9] = 0 /\ ret.value[i][10] = 2

====
